---- MODULE Spec2Model ----
(***************************************************************************)
(* A model of projectctl: the project registry (projects.toml), the name   *)
(* resolver, and the commands that read and rewrite the registry.          *)
(*                                                                         *)
(* Strings that the code inspects character by character (project names    *)
(* and queries) are sequences of one-character strings.  A timestamp is a  *)
(* natural number (the instant Utc::now() returned), an Option is a        *)
(* sequence of length 0 (None) or 1 (Some), a HashMap is a function.       *)
(***************************************************************************)
EXTENDS Integers, Sequences, FiniteSets, TLC

VARIABLES
    disk,       \* ~/.projectctl/projects.toml: absent, malformed or a document
    dirs,       \* the directories that exist on the filesystem
    now,        \* the instant Utc::now() returns
    last,       \* the outcome of the last command that ran
    reg,        \* the Vec<Project> handed to a pure function, or loaded last
    pc,         \* concurrent invocations: position of each invocation
    mem,        \* concurrent invocations: each invocation's in-memory copy
    op,         \* concurrent invocations: the command each invocation runs
    saved,      \* concurrent invocations: the invocations, in the order they saved
    tree        \* the directory a detection function scans: names and contents

vars == <<disk, dirs, now, last, reg, pc, mem, op, saved, tree>>

\* ----------------------------------------------------------------- bounds
MaxProjects == 3        \* registry length explored
MaxClock == 1           \* instants 0..MaxClock
MaxServices == 2        \* services of a compose file explored

\* ----------------------------------------------------------------- inputs
\* Names and queries a user types.  They are chosen so that exact, prefix and
\* substring matches, matches that differ only in case, and ambiguity all occur.
Names ==
    { <<"a">>, <<"a", "b">>, <<"A", "b">>, <<"a", "a">> }

Queries == Names \cup { <<"b">> }

\* The names and queries the resolver is explored with
FindNames == Names \cup { <<"b", "a">>, <<"a", "a", "b">> }
FindQueries == FindNames \cup { <<"b">>, <<"A">>, << >> }

\* Paths a user passes to add: the same directory, with and without a tilde.
UserPaths == { "~/w", "/home/u/w" }
AllDirs == { "/home/u/w" }

None == << >>
Some(x) == << x >>

\* ------------------------------------------------------------ str helpers
Lower(c) ==
    CASE c = "A" -> "a"
      [] c = "B" -> "b"
      [] OTHER -> c

to_lowercase(s) == [i \in 1..Len(s) |-> Lower(s[i])]

starts_with(s, p) ==
    /\ Len(p) <= Len(s)
    /\ SubSeq(s, 1, Len(p)) = p

contains(s, p) ==
    \E i \in 0..(Len(s) - Len(p)) : SubSeq(s, i + 1, i + Len(p)) = p

SetMin(S) == CHOOSE x \in S : \A y \in S : x <= y

\* ------------------------------------------------------------- project.rs
default_project_type == "unknown"

EmptyMap == << >>

\* ConfigManager::expand_path: shellexpand::tilde replaces a leading ~
expand_path(path) ==
    IF path = "~/w" THEN "/home/u/w" ELSE path

\* Project::new
ProjectNew(name, path, project_type, t) ==
    [ name |-> name,
      path |-> path,
      project_type |-> project_type,
      services |-> << >>,
      env |-> EmptyMap,
      commands |-> EmptyMap,
      last_used |-> Some(t) ]

\* ------------------------------------------------------------- config.rs
\* ConfigManager::find_project.  The Option<&Project> it returns is modelled by
\* the position of the referenced element in the slice, 0 for None.
find_project_first(projects, name) ==
    LET name_lower == to_lowercase(name)
        P == DOMAIN projects
        exact == { i \in P : to_lowercase(projects[i].name) = name_lower }
        any == { i \in P : contains(to_lowercase(projects[i].name), name_lower) }
    IN  IF exact # {} THEN SetMin(exact)
        ELSE IF any # {} THEN SetMin(any)
        ELSE 0

find_project_no_exact(projects, name) ==
    LET name_lower == to_lowercase(name)
        P == DOMAIN projects
        pre == { i \in P : starts_with(to_lowercase(projects[i].name), name_lower) }
        sub == { i \in P : contains(to_lowercase(projects[i].name), name_lower) }
    IN  IF Cardinality(pre) = 1 THEN CHOOSE i \in pre : TRUE
        ELSE IF Cardinality(sub) = 1 THEN CHOOSE i \in sub : TRUE
        ELSE 0

find_project_no_substring(projects, name) ==
    LET name_lower == to_lowercase(name)
        P == DOMAIN projects
        exact == { i \in P : to_lowercase(projects[i].name) = name_lower }
        pre == { i \in P : starts_with(to_lowercase(projects[i].name), name_lower) }
    IN  IF exact # {} THEN SetMin(exact)
        ELSE IF Cardinality(pre) = 1 THEN CHOOSE i \in pre : TRUE
        ELSE 0

\* find_project without its prefix tier
find_project_no_prefix(projects, name) ==
    LET name_lower == to_lowercase(name)
        P == DOMAIN projects
        exact == { i \in P : to_lowercase(projects[i].name) = name_lower }
        sub == { i \in P : contains(to_lowercase(projects[i].name), name_lower) }
    IN  IF exact # {} THEN SetMin(exact)
        ELSE IF Cardinality(sub) = 1 THEN CHOOSE i \in sub : TRUE
        ELSE 0

find_project(projects, name) ==
    LET name_lower == to_lowercase(name)
        P == DOMAIN projects
        exact == { i \in P : to_lowercase(projects[i].name) = name_lower }
        pre == { i \in P : starts_with(to_lowercase(projects[i].name), name_lower) }
        sub == { i \in P : contains(to_lowercase(projects[i].name), name_lower) }
    IN  IF exact # {} THEN SetMin(exact)
        ELSE IF Cardinality(pre) = 1 THEN CHOOSE i \in pre : TRUE
        ELSE IF Cardinality(sub) = 1 THEN CHOOSE i \in sub : TRUE
        ELSE 0

\* iter().enumerate().filter(..).map(|(i, _)| i).collect(): the positions of
\* `hits` as a Vec<usize>, ascending
collect(hits) ==
    [ k \in 1..Cardinality(hits) |->
        CHOOSE i \in hits : Cardinality({ j \in hits : j < i }) = k - 1 ]

\* find_project_mut taking the first prefix match instead of the only one
find_project_mut_first(projects, name) ==
    LET name_lower == to_lowercase(name)
        P == DOMAIN projects
        exact == { i \in P : to_lowercase(projects[i].name) = name_lower }
        prefix_matches ==
            collect({ i \in P : starts_with(to_lowercase(projects[i].name), name_lower) })
        contains_matches ==
            collect({ i \in P : contains(to_lowercase(projects[i].name), name_lower) })
    IN  IF exact # {} THEN SetMin(exact)
        ELSE IF Len(prefix_matches) >= 1 THEN prefix_matches[1]
        ELSE IF Len(contains_matches) = 1 THEN contains_matches[1]
        ELSE 0

\* ConfigManager::find_project_mut: the position of the record it returns, 0
\* for None
find_project_mut(projects, name) ==
    LET name_lower == to_lowercase(name)
        P == DOMAIN projects
        exact == { i \in P : to_lowercase(projects[i].name) = name_lower }
        prefix_matches ==
            collect({ i \in P : starts_with(to_lowercase(projects[i].name), name_lower) })
        contains_matches ==
            collect({ i \in P : contains(to_lowercase(projects[i].name), name_lower) })
    IN  IF exact # {} THEN SetMin(exact)
        ELSE IF Len(prefix_matches) = 1 THEN prefix_matches[1]
        ELSE IF Len(contains_matches) = 1 THEN contains_matches[1]
        ELSE 0

\* ------------------------------------------------- the registry file (toml)
\* projects.toml is absent, unparsable, or a document holding the array of
\* tables [[project]]; a table is a record of the keys written in it.
NoFile == [ kind |-> "absent", project |-> << >> ]
Malformed == [ kind |-> "malformed", project |-> << >> ]
Toml(tables) == [ kind |-> "toml", project |-> tables ]

Ok(v) == [ ok |-> TRUE, value |-> v ]
Err == [ ok |-> FALSE, value |-> << >> ]

\* Serialize for Project: a None last_used writes no key, every other field
\* (empty or not) is written; the field project_type is written as "type".
SerializeProject_NoneAsZero(p) ==
    [ name |-> p.name, path |-> p.path, type |-> p.project_type,
      services |-> p.services, env |-> p.env, commands |-> p.commands,
      last_used |-> IF p.last_used = None THEN 0 ELSE p.last_used[1] ]

SerializeProject(p) ==
    IF p.last_used = None
    THEN [ name |-> p.name, path |-> p.path, type |-> p.project_type,
           services |-> p.services, env |-> p.env, commands |-> p.commands ]
    ELSE [ name |-> p.name, path |-> p.path, type |-> p.project_type,
           services |-> p.services, env |-> p.env, commands |-> p.commands,
           last_used |-> p.last_used[1] ]

\* Deserialize for Project: name and path are required, the other keys take
\* their serde defaults when the table does not hold them.
DeserializeProject(t) ==
    [ name |-> t.name,
      path |-> t.path,
      project_type |-> IF "type" \in DOMAIN t THEN t.type ELSE default_project_type,
      services |-> IF "services" \in DOMAIN t THEN t.services ELSE << >>,
      env |-> IF "env" \in DOMAIN t THEN t.env ELSE EmptyMap,
      commands |-> IF "commands" \in DOMAIN t THEN t.commands ELSE EmptyMap,
      last_used |-> IF "last_used" \in DOMAIN t THEN Some(t.last_used) ELSE None ]

\* load_projects taking a file it cannot parse for an empty registry
load_projects_lenient(d) ==
    IF d.kind = "absent" THEN Ok(<< >>)
    ELSE IF d.kind = "malformed" THEN Ok(<< >>)
    ELSE IF \E i \in DOMAIN d.project :
                ~ ({"name", "path"} \subseteq DOMAIN d.project[i])
    THEN Ok(<< >>)
    ELSE Ok([ i \in DOMAIN d.project |-> DeserializeProject(d.project[i]) ])

\* ConfigManager::load_projects
load_projects(d) ==
    IF d.kind = "absent" THEN Ok(<< >>)
    ELSE IF d.kind = "malformed" THEN Err
    ELSE IF \E i \in DOMAIN d.project :
                ~ ({"name", "path"} \subseteq DOMAIN d.project[i])
    THEN Err
    ELSE Ok([ i \in DOMAIN d.project |-> DeserializeProject(d.project[i]) ])

\* ConfigManager::save_projects
save_projects(projects) ==
    Toml([ i \in DOMAIN projects |-> SerializeProject(projects[i]) ])

\* ------------------------------------------------ project.rs: detection
\* A directory is seen through `files`, the names that exist in it, and
\* `text`, which gives for a file the set of words its lower-cased content
\* contains.  A compose file is a sequence of lines [indent, kind, name]:
\* kind is "blank", "comment", "key" (the trimmed line is name followed by a
\* colon) or "other".
ComposeFiles ==
    << "docker-compose.yml", "docker-compose.yaml", "compose.yml", "compose.yaml" >>

Has(text, f, w) == f \in DOMAIN text /\ w \in text[f]

\* detect_type testing the generic React marker before the meta-frameworks
detect_type_react_first(files, text) ==
    IF "Cargo.toml" \in files
    THEN IF "src-tauri" \in files THEN "tauri" ELSE "rust"
    ELSE IF "pyproject.toml" \in files \/ "setup.py" \in files
    THEN IF ("requirements.txt" \in files \/ "pyproject.toml" \in files)
         THEN IF Has(text, "requirements.txt", "fastapi") THEN "fastapi"
              ELSE IF Has(text, "requirements.txt", "django") THEN "django"
              ELSE IF Has(text, "requirements.txt", "flask") THEN "flask"
              ELSE IF Has(text, "pyproject.toml", "fastapi") THEN "fastapi"
              ELSE IF Has(text, "pyproject.toml", "django") THEN "django"
              ELSE IF Has(text, "pyproject.toml", "flask") THEN "flask"
              ELSE "python"
         ELSE "python"
    ELSE IF "package.json" \in files
    THEN IF Has(text, "package.json", "\"react\"")
         THEN IF Has(text, "package.json", "\"vite\"") THEN "react-vite" ELSE "react"
         ELSE IF Has(text, "package.json", "\"next\"") THEN "nextjs"
         ELSE IF Has(text, "package.json", "\"nuxt\"") THEN "nuxt"
         ELSE IF Has(text, "package.json", "\"vue\"") THEN "vue"
         ELSE IF Has(text, "package.json", "\"svelte\"") THEN "svelte"
         ELSE IF Has(text, "package.json", "\"express\"") THEN "express"
         ELSE "node"
    ELSE IF "go.mod" \in files THEN "go"
    ELSE IF "pom.xml" \in files \/ "build.gradle" \in files THEN "java"
    ELSE "unknown"

\* detect_type testing the Java markers before go.mod
detect_type_java_before_go(files, text) ==
    IF "Cargo.toml" \in files
    THEN IF "src-tauri" \in files THEN "tauri" ELSE "rust"
    ELSE IF "pyproject.toml" \in files \/ "setup.py" \in files
    THEN IF ("requirements.txt" \in files \/ "pyproject.toml" \in files)
         THEN IF Has(text, "requirements.txt", "fastapi") THEN "fastapi"
              ELSE IF Has(text, "requirements.txt", "django") THEN "django"
              ELSE IF Has(text, "requirements.txt", "flask") THEN "flask"
              ELSE IF Has(text, "pyproject.toml", "fastapi") THEN "fastapi"
              ELSE IF Has(text, "pyproject.toml", "django") THEN "django"
              ELSE IF Has(text, "pyproject.toml", "flask") THEN "flask"
              ELSE "python"
         ELSE "python"
    ELSE IF "package.json" \in files
    THEN IF Has(text, "package.json", "\"next\"") THEN "nextjs"
         ELSE IF Has(text, "package.json", "\"nuxt\"") THEN "nuxt"
         ELSE IF Has(text, "package.json", "\"react\"")
         THEN IF Has(text, "package.json", "\"vite\"") THEN "react-vite" ELSE "react"
         ELSE IF Has(text, "package.json", "\"vue\"") THEN "vue"
         ELSE IF Has(text, "package.json", "\"svelte\"") THEN "svelte"
         ELSE IF Has(text, "package.json", "\"express\"") THEN "express"
         ELSE "node"
    ELSE IF "pom.xml" \in files \/ "build.gradle" \in files THEN "java"
    ELSE IF "go.mod" \in files THEN "go"
    ELSE "unknown"

\* Project::detect_type
detect_type(files, text) ==
    IF "Cargo.toml" \in files
    THEN IF "src-tauri" \in files THEN "tauri" ELSE "rust"
    ELSE IF "pyproject.toml" \in files \/ "setup.py" \in files
    THEN IF ("requirements.txt" \in files \/ "pyproject.toml" \in files)
         THEN IF Has(text, "requirements.txt", "fastapi") THEN "fastapi"
              ELSE IF Has(text, "requirements.txt", "django") THEN "django"
              ELSE IF Has(text, "requirements.txt", "flask") THEN "flask"
              ELSE IF Has(text, "pyproject.toml", "fastapi") THEN "fastapi"
              ELSE IF Has(text, "pyproject.toml", "django") THEN "django"
              ELSE IF Has(text, "pyproject.toml", "flask") THEN "flask"
              ELSE "python"
         ELSE "python"
    ELSE IF "package.json" \in files
    THEN IF Has(text, "package.json", "\"next\"") THEN "nextjs"
         ELSE IF Has(text, "package.json", "\"nuxt\"") THEN "nuxt"
         ELSE IF Has(text, "package.json", "\"react\"")
         THEN IF Has(text, "package.json", "\"vite\"") THEN "react-vite" ELSE "react"
         ELSE IF Has(text, "package.json", "\"vue\"") THEN "vue"
         ELSE IF Has(text, "package.json", "\"svelte\"") THEN "svelte"
         ELSE IF Has(text, "package.json", "\"express\"") THEN "express"
         ELSE "node"
    ELSE IF "go.mod" \in files THEN "go"
    ELSE IF "pom.xml" \in files \/ "build.gradle" \in files THEN "java"
    ELSE "unknown"

\* the loop body without the break at the return to the top level
parse_compose_line_no_break(st, line) ==
    IF st.stop \/ line.kind = "comment" \/ line.kind = "blank" THEN st
    ELSE IF line.kind = "key" /\ line.name = "services"
    THEN [ st EXCEPT !.in_services = TRUE, !.service_indent = None ]
    ELSE IF ~ st.in_services THEN st
    ELSE IF st.service_indent # None
    THEN IF line.indent = st.service_indent[1] /\ line.kind = "key"
                 /\ line.name # ""
         THEN [ st EXCEPT !.services = Append(@, line.name) ]
         ELSE st
    ELSE IF line.kind = "key" /\ line.indent > 0
    THEN [ st EXCEPT !.service_indent = Some(line.indent),
                     !.services = IF line.name # "" THEN Append(@, line.name) ELSE @ ]
    ELSE st

\* one iteration of the loop of parse_compose_services; st.stop is the break
parse_compose_line(st, line) ==
    IF st.stop \/ line.kind = "comment" \/ line.kind = "blank" THEN st
    ELSE IF line.kind = "key" /\ line.name = "services"
    THEN [ st EXCEPT !.in_services = TRUE, !.service_indent = None ]
    ELSE IF ~ st.in_services THEN st
    ELSE IF st.service_indent # None
    THEN IF line.indent <= 0 THEN [ st EXCEPT !.stop = TRUE ]
         ELSE IF line.indent = st.service_indent[1] /\ line.kind = "key"
                 /\ line.name # ""
         THEN [ st EXCEPT !.services = Append(@, line.name) ]
         ELSE st
    ELSE IF line.kind = "key" /\ line.indent > 0
    THEN [ st EXCEPT !.service_indent = Some(line.indent),
                     !.services = IF line.name # "" THEN Append(@, line.name) ELSE @ ]
    ELSE st

RECURSIVE parse_compose_from(_, _, _)
parse_compose_from(st, content, i) ==
    IF i > Len(content) THEN st
    ELSE parse_compose_from(parse_compose_line(st, content[i]), content, i + 1)

\* parse_compose_services
parse_compose_services(content) ==
    parse_compose_from(
        [ in_services |-> FALSE, service_indent |-> None,
          services |-> << >>, stop |-> FALSE ],
        content, 1).services

\* Project::detect_services: the first compose file that exists is parsed;
\* compose gives the lines of a compose file of the directory.
detect_services(files, compose) ==
    LET found == { i \in DOMAIN ComposeFiles : ComposeFiles[i] \in files }
    IN  IF found = {} THEN << >>
        ELSE parse_compose_services(compose[ComposeFiles[SetMin(found)]])

\* Project::detect_commands
detect_commands(files, project_type) ==
    CASE project_type = "rust" ->
            [ dev |-> "cargo run", test |-> "cargo test",
              build |-> "cargo build --release" ]
      [] project_type \in { "fastapi", "python" } ->
            IF "manage.py" \in files
            THEN [ dev |-> "python manage.py runserver",
                   test |-> "python manage.py test" ]
            ELSE [ dev |-> "uvicorn app.main:app --reload", test |-> "pytest" ]
      [] project_type = "django" ->
            [ dev |-> "python manage.py runserver", test |-> "python manage.py test" ]
      [] project_type \in { "nextjs", "react-vite", "react", "vue", "svelte" } ->
            [ dev |-> "npm run dev", build |-> "npm run build", test |-> "npm test" ]
      [] project_type \in { "node", "express" } ->
            [ dev |-> "npm run dev", start |-> "npm start", test |-> "npm test" ]
      [] project_type = "tauri" ->
            [ dev |-> "cargo tauri dev", build |-> "cargo tauri build",
              test |-> "cargo test" ]
      [] project_type = "go" ->
            [ dev |-> "go run .", test |-> "go test ./...",
              build |-> "go build -o bin/app ." ]
      [] OTHER -> EmptyMap

\* ------------------------------------------------------------- deps.rs
\* detect_managers
detect_managers(files) ==
    (IF "Cargo.toml" \in files THEN << "cargo" >> ELSE << >>)
    \o (IF "package.json" \in files
        THEN IF "yarn.lock" \in files THEN << "yarn" >>
             ELSE IF "pnpm-lock.yaml" \in files THEN << "pnpm" >>
             ELSE << "npm" >>
        ELSE << >>)
    \o (IF "requirements.txt" \in files \/ "pyproject.toml" \in files
           \/ "setup.py" \in files
        THEN IF "Pipfile" \in files THEN << "pipenv" >>
             ELSE IF "poetry.lock" \in files THEN << "poetry" >>
             ELSE << "pip" >>
        ELSE << >>)
    \o (IF "go.mod" \in files THEN << "go" >> ELSE << >>)

\* ------------------------------------------------------ the filesystem
\* The content of the one project directory of the model, /home/u/w: a Rust
\* crate without a compose file.
DirFiles == { "Cargo.toml", "src" }
DirText == [ f \in { "Cargo.toml" } |-> { "[package]" } ]
DirCompose == [ f \in {} |-> << >> ]
ProjectDir == [ files |-> DirFiles, text |-> DirText, compose |-> DirCompose ]
\* std::env::current_dir() of an invocation
CurrentDir == "/home/u/w"
\* Path::file_name of the directory, the default project name
DirBaseName == << "w" >>

\* --------------------------------------------------------------- main.rs
\* A command's outcome: the registry file it leaves, its exit status, the
\* position of the project it selected (0: none) and, for the bulk commands,
\* the positions of the projects it processed.
Outcome(d, status, idx, done) ==
    [ disk |-> d, status |-> status, idx |-> idx, done |-> done ]

\* Project::exists / Path::exists on the expanded path
path_exists(path, fsdirs) == expand_path(path) \in fsdirs

\* touch that keeps a last_used already present
touch_keep_existing(p, t) ==
    IF p.last_used = None THEN [ p EXCEPT !.last_used = Some(t) ] ELSE p

\* Project::touch
touch(p, t) == [ p EXCEPT !.last_used = Some(t) ]

\* Project::last_used_time as a sort key: None orders before every Some
last_used_time(p) == IF p.last_used = None THEN -1 ELSE p.last_used[1]

\* chrono::Duration::num_minutes, num_hours, num_days, num_weeks of a duration
\* of d seconds: the whole units, truncated towards zero
num_units(d, unit) == IF d >= 0 THEN d \div unit ELSE -((-d) \div unit)
num_minutes(d) == num_units(d, 60)
num_hours(d) == num_units(d, 3600)
num_days(d) == num_units(d, 86400)
num_weeks(d) == num_units(d, 604800)

\* format!("{} hour{} ago", h, if h == 1 { "" } else { "s" })
Label(n, unit) == [ n |-> n, unit |-> unit ]
Plural(n, one, many) == Label(n, IF n = 1 THEN one ELSE many)

\* The months tier without its m < 1 arm
ago_label_no_minimum(d) ==
    IF num_minutes(d) < 1 THEN Label(0, "just now")
    ELSE IF num_minutes(d) < 60 THEN Label(num_minutes(d), "min")
    ELSE IF num_hours(d) < 24 THEN Plural(num_hours(d), "hour", "hours")
    ELSE IF num_days(d) < 7 THEN Plural(num_days(d), "day", "days")
    ELSE IF num_weeks(d) < 4 THEN Plural(num_weeks(d), "week", "weeks")
    ELSE Plural(num_days(d) \div 30, "month", "months")

\* Project::last_used_ago, the Some(dt) arm: the label of a duration of d
\* seconds since last_used
ago_label(d) ==
    IF num_minutes(d) < 1 THEN Label(0, "just now")
    ELSE IF num_minutes(d) < 60 THEN Label(num_minutes(d), "min")
    ELSE IF num_hours(d) < 24 THEN Plural(num_hours(d), "hour", "hours")
    ELSE IF num_days(d) < 7 THEN Plural(num_days(d), "day", "days")
    ELSE IF num_weeks(d) < 4 THEN Plural(num_weeks(d), "week", "weeks")
    ELSE LET m == num_days(d) \div 30
         IN  IF m < 1 THEN Label(1, "month") ELSE Plural(m, "month", "months")

\* Project::last_used_ago at the instant t, instants counted in seconds
last_used_ago(p, t) ==
    IF last_used_time(p) = -1 THEN Label(0, "never")
    ELSE ago_label(t - last_used_time(p))

\* sort_by(|a, b| ta.cmp(&tb)): the comparison the other way round
recent_order_ascending(projects) ==
    LET P == DOMAIN projects
        Before(i, j) ==
            \/ last_used_time(projects[i]) < last_used_time(projects[j])
            \/ /\ last_used_time(projects[i]) = last_used_time(projects[j])
               /\ i < j
        Rank(i) == 1 + Cardinality({ j \in P : Before(j, i) })
    IN  [ k \in 1..Len(projects) |-> CHOOSE i \in P : Rank(i) = k ]

\* sort_by(|a, b| tb.cmp(&ta)): the stable sort, most recent first, as the
\* sequence of positions
recent_order(projects) ==
    LET P == DOMAIN projects
        Before(i, j) ==
            \/ last_used_time(projects[i]) > last_used_time(projects[j])
            \/ /\ last_used_time(projects[i]) = last_used_time(projects[j])
               /\ i < j
        Rank(i) == 1 + Cardinality({ j \in P : Before(j, i) })
    IN  [ k \in 1..Len(projects) |-> CHOOSE i \in P : Rank(i) = k ]

\* cmd_add
cmd_add(d, name, path, project_type, fsdirs, t) ==
    LET project_path == IF path = None THEN CurrentDir ELSE expand_path(path[1])
        project_name == IF name = None THEN DirBaseName ELSE name[1]
        detected_type ==
            IF project_type = None THEN detect_type(DirFiles, DirText)
            ELSE project_type[1]
        detected_services == detect_services(DirFiles, DirCompose)
        detected_commands == detect_commands(DirFiles, detected_type)
        loaded == load_projects(d)
        projects == loaded.value
        project ==
            [ ProjectNew(project_name, project_path, detected_type, t)
                EXCEPT !.services = detected_services,
                       !.commands = detected_commands ]
    IN  IF project_path \notin fsdirs THEN Outcome(d, "not_a_directory", 0, << >>)
        ELSE IF ~ loaded.ok THEN Outcome(d, "parse_error", 0, << >>)
        ELSE IF \E i \in DOMAIN projects : projects[i].name = project_name
        THEN Outcome(d, "already_registered", 0, << >>)
        ELSE Outcome(save_projects(Append(projects, project)), "ok",
                     Len(projects) + 1, << >>)

\* Vec::retain: the elements at the positions `kept`, in their order
Retain(projects, kept) ==
    LET Nth(k) == CHOOSE i \in kept : Cardinality({ j \in kept : j < i }) = k - 1
    IN  [ k \in 1..Cardinality(kept) |-> projects[Nth(k)] ]

cmd_remove_prefix(d, name) ==
    LET loaded == load_projects(d)
        projects == loaded.value
        q == to_lowercase(name)
        retained == Retain(projects,
                        { i \in DOMAIN projects :
                            ~ starts_with(to_lowercase(projects[i].name), q) })
    IN  IF ~ loaded.ok THEN Outcome(d, "parse_error", 0, << >>)
        ELSE IF Len(retained) = Len(projects) THEN Outcome(d, "not_found", 0, << >>)
        ELSE Outcome(save_projects(retained), "ok", 0, << >>)

\* cmd_remove
cmd_remove(d, name) ==
    LET loaded == load_projects(d)
        projects == loaded.value
        q == to_lowercase(name)
        retained == Retain(projects,
                        { i \in DOMAIN projects : to_lowercase(projects[i].name) # q })
    IN  IF ~ loaded.ok THEN Outcome(d, "parse_error", 0, << >>)
        ELSE IF Len(retained) = Len(projects) THEN Outcome(d, "not_found", 0, << >>)
        ELSE Outcome(save_projects(retained), "ok", 0, << >>)

\* cmd_switch: the position it selects, 0 when it bails
switch_select(projects, name, recent) ==
    IF recent
    THEN IF projects = << >> THEN 0 ELSE recent_order(projects)[1]
    ELSE LET q == to_lowercase(name[1])
             hit == { i \in DOMAIN projects :
                        \/ to_lowercase(projects[i].name) = q
                        \/ starts_with(to_lowercase(projects[i].name), q)
                        \/ contains(to_lowercase(projects[i].name), q) }
         IN  IF hit = {} THEN 0 ELSE SetMin(hit)

\* cmd_switch moving the selected project to the front of the registry
cmd_switch_move_front(d, name, recent, fsdirs, t) ==
    LET loaded == load_projects(d)
        projects == loaded.value
        project == switch_select(projects, name, recent)
    IN  IF ~ loaded.ok THEN Outcome(d, "parse_error", 0, << >>)
        ELSE IF ~ recent /\ name = None THEN Outcome(d, "usage", 0, << >>)
        ELSE IF project = 0
        THEN Outcome(d, IF recent THEN "no_projects" ELSE "not_found", 0, << >>)
        ELSE IF ~ path_exists(projects[project].path, fsdirs)
        THEN Outcome(d, "dir_missing", project, << >>)
        ELSE Outcome(
                save_projects(<< touch(projects[project], t) >>
                    \o Retain(projects, DOMAIN projects \ { project })),
                "ok", project, << >>)

\* cmd_switch touching and saving before it tests the directory
cmd_switch_touch_first(d, name, recent, fsdirs, t) ==
    LET loaded == load_projects(d)
        projects == loaded.value
        project == switch_select(projects, name, recent)
    IN  IF ~ loaded.ok THEN Outcome(d, "parse_error", 0, << >>)
        ELSE IF ~ recent /\ name = None THEN Outcome(d, "usage", 0, << >>)
        ELSE IF project = 0
        THEN Outcome(d, IF recent THEN "no_projects" ELSE "not_found", 0, << >>)
        ELSE IF ~ path_exists(projects[project].path, fsdirs)
        THEN Outcome(save_projects([ projects EXCEPT ![project] = touch(@, t) ]),
                     "dir_missing", project, << >>)
        ELSE Outcome(
                save_projects([ projects EXCEPT ![project] = touch(@, t) ]),
                "ok", project, << >>)

\* cmd_switch
cmd_switch(d, name, recent, fsdirs, t) ==
    LET loaded == load_projects(d)
        projects == loaded.value
        project == switch_select(projects, name, recent)
    IN  IF ~ loaded.ok THEN Outcome(d, "parse_error", 0, << >>)
        ELSE IF ~ recent /\ name = None THEN Outcome(d, "usage", 0, << >>)
        ELSE IF project = 0
        THEN Outcome(d, IF recent THEN "no_projects" ELSE "not_found", 0, << >>)
        ELSE IF ~ path_exists(projects[project].path, fsdirs)
        THEN Outcome(d, "dir_missing", project, << >>)
        ELSE Outcome(
                save_projects([ projects EXCEPT ![project] = touch(@, t) ]),
                "ok", project, << >>)

\* cmd_info, cmd_start, cmd_run, ...: the read-only commands resolve the
\* project with find_project
cmd_info(d, name) ==
    LET loaded == load_projects(d)
        project == find_project(loaded.value, name)
    IN  IF ~ loaded.ok THEN Outcome(d, "parse_error", 0, << >>)
        ELSE IF project = 0 THEN Outcome(d, "not_found", 0, << >>)
        ELSE Outcome(d, "ok", project, << >>)

\* The files of a directory: tree gives those of /home/u/w, every other
\* directory of the model is empty
files_of(path, fsdirs, tr) ==
    IF ~ path_exists(path, fsdirs) THEN {}
    ELSE IF expand_path(path) = "/home/u/w" THEN tr.files
    ELSE {}

\* Project::has_docker_compose
has_docker_compose(p, fsdirs, tr) ==
    \E i \in DOMAIN ComposeFiles : ComposeFiles[i] \in files_of(p.path, fsdirs, tr)

\* services::get_compose_status: no compose file gives an empty list; ps is
\* what `docker compose ps` gives in the directory, an error when docker
\* cannot be run, else the State of each service
get_compose_status(p, fsdirs, tr, ps) ==
    IF ~ has_docker_compose(p, fsdirs, tr) THEN Ok(<< >>) ELSE ps

\* display::is_running
is_running(p, fsdirs, tr, ps) ==
    /\ has_docker_compose(p, fsdirs, tr)
    /\ get_compose_status(p, fsdirs, tr, ps).ok
    /\ \E k \in DOMAIN get_compose_status(p, fsdirs, tr, ps).value :
            get_compose_status(p, fsdirs, tr, ps).value[k] = "running"

\* display::get_project_status
get_project_status(p, fsdirs, tr, ps) ==
    IF ~ path_exists(p.path, fsdirs) THEN "Missing"
    ELSE IF has_docker_compose(p, fsdirs, tr) /\ is_running(p, fsdirs, tr, ps)
    THEN "Running"
    ELSE "Idle"

\* str::to_lowercase and str::contains on the type tags of the model
lower_tag(tag) == IF tag = "RUST" THEN "rust" ELSE tag
tag_contains(tag, part) ==
    tag = part \/ << tag, part >> \in { << "react-vite", "react" >>, << "react-vite", "vite" >> }

\* cmd_list and display::display_project_list: the rows of the table, the
\* position in the registry and the Status column of each project listed
cmd_list(d, project_type, active, fsdirs, tr, ps) ==
    LET loaded == load_projects(d)
        projects == loaded.value
        filtered ==
            collect({ i \in DOMAIN projects :
                /\ project_type # None
                        => tag_contains(lower_tag(projects[i].project_type),
                                        lower_tag(project_type[1]))
                /\ active => has_docker_compose(projects[i], fsdirs, tr) })
        rows == [ k \in DOMAIN filtered |->
                    [ pos |-> filtered[k],
                      status |-> get_project_status(projects[filtered[k]], fsdirs, tr, ps) ] ]
    IN  IF ~ loaded.ok THEN Outcome(d, "parse_error", 0, << >>)
        ELSE Outcome(d, "ok", 0, rows)

\* Iterator::take(limit) of a sequence
take(seq, limit) == SubSeq(seq, 1, IF limit < Len(seq) THEN limit ELSE Len(seq))

\* display::display_recent: the positions of the projects it prints, in the
\* order it prints them
display_recent(projects, limit) ==
    IF projects = << >> THEN << >> ELSE take(recent_order(projects), limit)

\* cmd_recent
cmd_recent(d, limit) ==
    LET loaded == load_projects(d)
    IN  IF ~ loaded.ok THEN Outcome(d, "parse_error", 0, << >>)
        ELSE Outcome(d, "ok", 0, display_recent(loaded.value, limit))

\* update_cargo, update_npm, ...: TRUE when the update of one manager returns
\* Ok.  Spawning the manager's binary fails when it is not installed and the
\* error is returned with `?`; update_pip spawns pip only when
\* requirements.txt exists; "pipenv" has no arm in the match.
update_manager(manager, files, bins) ==
    IF manager = "pipenv" THEN TRUE
    ELSE IF manager = "pip" THEN "requirements.txt" \notin files \/ "pip" \in bins
    ELSE manager \in bins

\* the loop of update_deps over the managers from position i: the managers
\* whose update was started, and whether all of them returned Ok
RECURSIVE update_managers(_, _, _, _, _)
update_managers(managers, i, ran, files, bins) ==
    IF i > Len(managers) THEN [ ok |-> TRUE, ran |-> ran ]
    ELSE IF update_manager(managers[i], files, bins)
    THEN update_managers(managers, i + 1, Append(ran, managers[i]), files, bins)
    ELSE [ ok |-> FALSE, ran |-> Append(ran, managers[i]) ]

\* deps::update_deps on a project whose directory holds `files`: it bails
\* when the directory is missing
update_run(project, fsdirs, files, bins) ==
    IF ~ path_exists(project.path, fsdirs) THEN [ ok |-> FALSE, ran |-> << >> ]
    ELSE update_managers(detect_managers(files), 1, << >>, files, bins)

\* deps::check_outdated on a project whose directory holds `files`: it bails
\* when the directory is missing; a check_* function reports a binary that
\* cannot be run and returns Ok
check_run(project, fsdirs, files, bins) ==
    IF ~ path_exists(project.path, fsdirs) THEN [ ok |-> FALSE, ran |-> << >> ]
    ELSE [ ok |-> TRUE, ran |-> detect_managers(files) ]

\* deps::check_outdated, TRUE when it returns Ok
check_outdated(project, fsdirs, bins) ==
    check_run(project, fsdirs, DirFiles, bins).ok

\* deps::update_deps, TRUE when it returns Ok
update_deps(project, fsdirs, bins) ==
    update_run(project, fsdirs, DirFiles, bins).ok

deps_call(action, project, fsdirs, bins) ==
    IF action = "update" THEN update_deps(project, fsdirs, bins)
    ELSE check_outdated(project, fsdirs, bins)

\* cmd_deps, the loop of --all: the call's error leaves the loop with `?`
RECURSIVE deps_all(_, _, _, _, _, _)
deps_all(action, projects, i, done, fsdirs, bins) ==
    IF i > Len(projects) THEN [ ok |-> TRUE, done |-> done ]
    ELSE IF deps_call(action, projects[i], fsdirs, bins)
    THEN deps_all(action, projects, i + 1, Append(done, i), fsdirs, bins)
    ELSE [ ok |-> FALSE, done |-> Append(done, i) ]

\* cmd_deps for update and check; done lists the projects the deps function
\* was called on
cmd_deps(d, action, name, all, fsdirs, bins) ==
    LET loaded == load_projects(d)
        projects == loaded.value
        bulk == deps_all(action, projects, 1, << >>, fsdirs, bins)
        project == find_project(projects, name[1])
    IN  IF ~ loaded.ok THEN Outcome(d, "parse_error", 0, << >>)
        ELSE IF all
        THEN Outcome(d, IF bulk.ok THEN "ok" ELSE "failed", 0, bulk.done)
        ELSE IF name = None THEN Outcome(d, "usage", 0, << >>)
        ELSE IF project = 0 THEN Outcome(d, "not_found", 0, << >>)
        ELSE Outcome(d,
                IF deps_call(action, projects[project], fsdirs, bins)
                THEN "ok" ELSE "failed",
                project, << project >>)

\* ------------------------------------------------------------ templates
\* templates::BUILTIN_TEMPLATES, the names create_builtin_template matches
BuiltinTemplates == { "fastapi", "react-vite", "tauri", "rust-cli", "nextjs" }

\* The directories of ~/.config/projectctl/templates: one saved template
CustomTemplates == { "mine" }

\* PathBuf::join of a directory and a project name
JoinPath(dir, name) ==
    IF dir = "/home/u/w" /\ name = << "a" >> THEN "/home/u/w/a"
    ELSE IF dir = "/home/u/w" /\ name = << "a", "b" >> THEN "/home/u/w/ab"
    ELSE "/home/u/w/other"

\* templates::create_builtin_template: the directory is created before the
\* template name is matched
create_builtin_template(template, target, fsdirs) ==
    [ ok |-> template \in BuiltinTemplates, dirs |-> fsdirs \cup { target } ]

\* templates::init_git, TRUE when it returns Ok: spawning git fails when the
\* binary is absent; the exit status of git init is only reported
init_git(git) == git

\* templates::create_from_template: the target directory, the directories
\* afterwards and the result
create_from_template(name, template, target_dir, fsdirs, git) ==
    LET target ==
            IF target_dir = None THEN JoinPath(CurrentDir, name)
            ELSE JoinPath(expand_path(target_dir[1]), name)
        made ==
            IF template \in CustomTemplates
            THEN [ ok |-> TRUE, dirs |-> fsdirs \cup { target } ]
            ELSE create_builtin_template(template, target, fsdirs)
    IN  IF target \in fsdirs
        THEN [ status |-> "exists", target |-> target, dirs |-> fsdirs ]
        ELSE IF ~ made.ok
        THEN [ status |-> "unknown_template", target |-> target, dirs |-> made.dirs ]
        ELSE IF ~ init_git(git)
        THEN [ status |-> "git_failed", target |-> target, dirs |-> made.dirs ]
        ELSE [ status |-> "ok", target |-> target, dirs |-> made.dirs ]

\* cmd_new: the registry file is neither read nor written
cmd_new(d, name, template, dir, fsdirs, git) ==
    LET made == create_from_template(name, template, dir, fsdirs, git)
    IN  [ disk |-> d, dirs |-> made.dirs, status |-> made.status,
          target |-> made.target ]

\* ------------------------------------------------------- the state machine
Procs == { 1, 2 }

\* The last command run: its name argument, the --path or --dir argument as
\* the user typed it, and what it reported
NoCmd ==
    [ cmd |-> "none", arg |-> << >>, path |-> << >>, status |-> "none",
      idx |-> 0, done |-> << >> ]

Ran(cmd, arg, out) ==
    [ cmd |-> cmd, arg |-> arg, path |-> << >>, status |-> out.status,
      idx |-> out.idx, done |-> out.done ]

Idle == [ at |-> "idle", seen |-> 0, pos |-> 0 ]

Init ==
    /\ disk = NoFile
    /\ dirs = AllDirs
    /\ now = 0
    /\ last = NoCmd
    /\ reg = << >>
    /\ pc = [ p \in Procs |-> Idle ]
    /\ mem = [ p \in Procs |-> << >> ]
    /\ op = [ p \in Procs |-> NoCmd ]
    /\ saved = << >>
    /\ tree = ProjectDir

OptArg(o) == IF o = None THEN << >> ELSE o[1]

\* projectctl add [name] [--path p]
Add(name, path) ==
    /\ Len(disk.project) < MaxProjects
    /\ LET out == cmd_add(disk, name, path, None, dirs, now)
       IN  /\ disk' = out.disk
           /\ last' = [ Ran("add", OptArg(name), out) EXCEPT !.path = path ]
    /\ UNCHANGED << tree, dirs, now, reg, pc, mem, op, saved >>

\* projectctl remove <name>
Remove(name) ==
    /\ LET out == cmd_remove(disk, name)
       IN  /\ disk' = out.disk
           /\ last' = Ran("remove", name, out)
    /\ UNCHANGED << tree, dirs, now, reg, pc, mem, op, saved >>

\* projectctl switch <name>
Switch(name) ==
    /\ LET out == cmd_switch(disk, name, FALSE, dirs, now)
       IN  /\ disk' = out.disk
           /\ last' = Ran("switch", OptArg(name), out)
    /\ UNCHANGED << tree, dirs, now, reg, pc, mem, op, saved >>

\* projectctl switch --recent
SwitchRecent ==
    /\ LET out == cmd_switch(disk, None, TRUE, dirs, now)
       IN  /\ disk' = out.disk
           /\ last' = Ran("switch_recent", << >>, out)
    /\ UNCHANGED << tree, dirs, now, reg, pc, mem, op, saved >>

\* projectctl deps update --all, projectctl deps check --all
DepsAll(action, bins) ==
    /\ LET out == cmd_deps(disk, action, None, TRUE, dirs, bins)
       IN  /\ disk' = out.disk
           /\ last' = Ran(action, << >>, out)
    /\ UNCHANGED << tree, dirs, now, reg, pc, mem, op, saved >>

\* the clock advances
Tick ==
    /\ now < MaxClock
    /\ now' = now + 1
    /\ UNCHANGED << tree, disk, dirs, last, reg, pc, mem, op, saved >>

\* the user deletes or recreates the project directory
RemoveDir(dir) ==
    /\ dir \in dirs
    /\ dirs' = dirs \ { dir }
    /\ UNCHANGED << tree, disk, now, last, reg, pc, mem, op, saved >>

MakeDir(dir) ==
    /\ dir \notin dirs
    /\ dirs' = dirs \cup { dir }
    /\ UNCHANGED << tree, disk, now, last, reg, pc, mem, op, saved >>

OptNames == { Some(n) : n \in Names }
OptPaths == { Some(p) : p \in UserPaths }

Next ==
    \/ \E name \in OptNames, path \in OptPaths : Add(name, path)
    \/ \E name \in Queries : Remove(name)
    \/ \E name \in { Some(q) : q \in Queries } : Switch(name)
    \/ SwitchRecent
    \/ Tick
    \/ \E dir \in AllDirs : RemoveDir(dir)
    \/ \E dir \in AllDirs : MakeDir(dir)

Spec == Init /\ [][Next]_vars

\* The commands on a registry file that exists and cannot be parsed: it is no
\* TOML document, or one of its project tables lacks the name.
InitMalformed ==
    /\ disk \in { Malformed, Toml(<< [ path |-> "~/w" ] >>) }
    /\ dirs = AllDirs
    /\ now = 0
    /\ last = NoCmd
    /\ reg = << >>
    /\ pc = [ p \in Procs |-> Idle ]
    /\ mem = [ p \in Procs |-> << >> ]
    /\ op = [ p \in Procs |-> NoCmd ]
    /\ saved = << >>
    /\ tree = ProjectDir

SpecMalformed == InitMalformed /\ [][Next]_vars

\* ------------------------------------------------ the bulk deps commands
\* The package manager binaries that can be run: cargo is installed.
DepsBins == { { "cargo" } }

NextDeps ==
    \/ \E name \in OptNames, path \in OptPaths : Add(name, path)
    \/ \E name \in Queries : Remove(name)
    \/ \E action \in { "update", "check" }, bins \in DepsBins :
            DepsAll(action, bins)
    \/ \E dir \in AllDirs : RemoveDir(dir)
    \/ \E dir \in AllDirs : MakeDir(dir)

SpecDeps == Init /\ [][NextDeps]_vars

\* ------------------------------------------------------- projectctl new
NewNames == { << "a" >>, << "a", "b" >> }
NewTemplates == { "rust-cli", "mine", "bogus" }
NewDirs == { None, Some("~/w") }
NewTargets == { JoinPath(CurrentDir, n) : n \in NewNames }

\* projectctl new <name> --template <t> [--dir d]; git is installed or not
New(name, template, dir, git) ==
    /\ LET out == cmd_new(disk, name, template, dir, dirs, git)
       IN  /\ disk' = out.disk
           /\ dirs' = out.dirs
           /\ last' = [ NoCmd EXCEPT !.cmd = "new", !.arg = name, !.path = dir,
                                     !.status = out.status ]
    /\ UNCHANGED << tree, now, reg, pc, mem, op, saved >>

NextNew ==
    \/ \E name \in NewNames, template \in NewTemplates, dir \in NewDirs,
          git \in BOOLEAN : New(name, template, dir, git)
    \/ \E name \in NewNames, path \in NewTargets \cup UserPaths :
            Add(Some(name), Some(path))
    \/ \E name \in NewNames : Remove(name)
    \/ \E dir \in NewTargets : RemoveDir(dir)

SpecNew == Init /\ [][NextNew]_vars

\* ------------------------------------------------- most recent first
\* Registries whose records carry every combination of absent, equal and
\* distinct last_used, as a registry file edited by hand or written by
\* earlier switches holds them
RecentNames == << << "a" >>, << "a", "b" >>, << "A", "b" >>, << "a", "a" >>, << "b" >> >>
RecentLimits == { 1, 2, 10 }

RecentRegistries ==
    UNION { { [ i \in 1..n |->
                [ ProjectNew(RecentNames[i], "/home/u/w", "rust", 0)
                    EXCEPT !.last_used = lu[i] ] ] :
              lu \in [ 1..n -> { None } \cup { Some(t) : t \in 0..MaxClock } ] } : n \in 0..MaxProjects }

InitRecent ==
    /\ disk \in { save_projects(projects) : projects \in RecentRegistries }
    /\ dirs = AllDirs
    /\ now = MaxClock
    /\ last = NoCmd
    /\ reg = << >>
    /\ pc = [ p \in Procs |-> Idle ]
    /\ mem = [ p \in Procs |-> << >> ]
    /\ op = [ p \in Procs |-> NoCmd ]
    /\ saved = << >>
    /\ tree = ProjectDir

\* projectctl recent --limit n
Recent(limit) ==
    /\ LET out == cmd_recent(disk, limit)
       IN  /\ disk' = out.disk
           /\ last' = Ran("recent", << >>, out)
    /\ UNCHANGED << tree, dirs, now, reg, pc, mem, op, saved >>

NextRecent ==
    \/ \E limit \in RecentLimits : Recent(limit)
    \/ SwitchRecent
    \/ \E name \in { Some(q) : q \in Queries } : Switch(name)

SpecRecent == InitRecent /\ [][NextRecent]_vars

\* ----------------------------------------------------- the recency label
\* Elapsed times in seconds around every threshold of the label: a multiple
\* of each unit, one second less and one second more
AgoDurations ==
    { u * k + e : u \in { 1, 60, 3600, 86400, 604800, 2592000 },
                  k \in { 0, 1, 2, 4, 7, 23, 24, 25, 28, 30, 59, 60 },
                  e \in { -1, 0, 1, 30 } }
AgoStamps == { None, Some(0), Some(604800) }

InitAgo ==
    /\ \E lu \in AgoStamps :
            reg = << [ ProjectNew(<< "a" >>, "/home/u/w", "rust", 0)
                        EXCEPT !.last_used = lu ] >>
    /\ now \in { d \in AgoDurations : d >= 0 }
    /\ disk = NoFile
    /\ dirs = AllDirs
    /\ last = NoCmd
    /\ pc = [ p \in Procs |-> Idle ]
    /\ mem = [ p \in Procs |-> << >> ]
    /\ op = [ p \in Procs |-> NoCmd ]
    /\ saved = << >>
    /\ tree = ProjectDir

\* reg[1].last_used_ago() at the instant now
LastUsedAgo ==
    /\ last.cmd = "none"
    /\ LET label == last_used_ago(reg[1], now)
       IN  last' = [ NoCmd EXCEPT !.cmd = "last_used_ago", !.status = label.unit,
                                 !.idx = label.n ]
    /\ UNCHANGED << tree, disk, dirs, now, reg, pc, mem, op, saved >>

NextAgo == LastUsedAgo

SpecAgo == InitAgo /\ [][NextAgo]_vars

\* ------------------------------------------------------ compose documents
\* Compose files of the usual block shape: an optional head, the services
\* key, the service keys at one indent each with deeper configuration, and an
\* optional tail of other top-level sections.
ServiceNames == { "api", "db", "web" }
ServiceIndents == { 2, 4 }

Key(indent, name) == [ indent |-> indent, kind |-> "key", name |-> name ]
Other(indent) == [ indent |-> indent, kind |-> "other", name |-> "" ]
Blank == [ indent |-> 0, kind |-> "blank", name |-> "" ]
Comment(indent) == [ indent |-> indent, kind |-> "comment", name |-> "" ]

ConfigBlocks(si) ==
    { << Other(si + 2) >>,
      << Key(si + 2, "environment"), Other(si + 4) >>,
      << Key(si + 2, "db"), Other(si + 2) >>,
      << Other(si + 2), Blank, Comment(si) >> }

ComposeHeads(si) ==
    { << >>, << Other(0) >>, << Comment(0), Key(0, "networks"), Key(si, "front") >> }

ComposeTails(si) ==
    { << >>,
      << Key(0, "volumes"), Key(si, "dbdata") >>,
      << Blank, Key(0, "networks"), Key(si, "api"), Other(si + 2) >> }

ServiceLists ==
    { sv \in UNION { [ 1..n -> ServiceNames ] : n \in 1..MaxServices } :
        \A i, j \in DOMAIN sv : sv[i] = sv[j] => i = j }

RECURSIVE Flatten(_)
Flatten(blocks) ==
    IF blocks = << >> THEN << >> ELSE Head(blocks) \o Flatten(Tail(blocks))

ComposeDocs ==
    UNION { { head \o << Key(0, "services") >>
                \o Flatten([ i \in DOMAIN sv |-> << Key(si, sv[i]) >> \o cfg[i] ])
                \o tail :
              head \in ComposeHeads(si), tail \in ComposeTails(si),
              cfg \in [ DOMAIN sv -> ConfigBlocks(si) ] } :
            si \in ServiceIndents, sv \in ServiceLists }

InitCompose ==
    /\ \E file \in { "docker-compose.yml", "compose.yaml" }, doc \in ComposeDocs :
            tree = [ files |-> { file }, text |-> EmptyMap,
                     compose |-> [ f \in { file } |-> doc ] ]
    /\ disk = NoFile
    /\ dirs = AllDirs
    /\ now = 0
    /\ last = NoCmd
    /\ reg = << >>
    /\ pc = [ p \in Procs |-> Idle ]
    /\ mem = [ p \in Procs |-> << >> ]
    /\ op = [ p \in Procs |-> NoCmd ]
    /\ saved = << >>

\* Project::detect_services(&tree)
DetectServices ==
    /\ last.cmd = "none"
    /\ last' = [ NoCmd EXCEPT !.cmd = "detect_services",
                              !.done = detect_services(tree.files, tree.compose) ]
    /\ UNCHANGED << tree, disk, dirs, now, reg, pc, mem, op, saved >>

NextCompose == DetectServices

SpecCompose == InitCompose /\ [][NextCompose]_vars

\* Compose documents as above, and documents whose services key has no
\* child: the next content line, if any, is the top-level key of another
\* section.
InitComposeAny ==
    /\ \E file \in { "docker-compose.yml", "compose.yaml" },
          doc \in ComposeDocs \cup
                  UNION { { head \o << Key(0, "services") >> \o tail :
                            head \in ComposeHeads(si), tail \in ComposeTails(si) } :
                          si \in ServiceIndents } :
            tree = [ files |-> { file }, text |-> EmptyMap,
                     compose |-> [ f \in { file } |-> doc ] ]
    /\ disk = NoFile
    /\ dirs = AllDirs
    /\ now = 0
    /\ last = NoCmd
    /\ reg = << >>
    /\ pc = [ p \in Procs |-> Idle ]
    /\ mem = [ p \in Procs |-> << >> ]
    /\ op = [ p \in Procs |-> NoCmd ]
    /\ saved = << >>

SpecComposeAny == InitComposeAny /\ [][NextCompose]_vars

\* ------------------------------------------------------- type detection
\* Directories holding any of the marker files detect_type looks for.
TypeMarkers == { "Cargo.toml", "package.json", "go.mod", "requirements.txt" }
JsDependencies ==
    { "\"next\"", "\"nuxt\"", "\"react\"", "\"vite\"", "\"vue\"", "\"svelte\"",
      "\"express\"" }

\* a JavaScript project: package.json, when it can be read, lists any of the
\* dependencies
TypeDirs ==
    UNION { IF "package.json" \in files
            THEN { [ files |-> files, text |-> EmptyMap, compose |-> EmptyMap ] }
                 \cup { [ files |-> files,
                          text |-> [ f \in { "package.json" } |-> words ],
                          compose |-> EmptyMap ] : words \in SUBSET JsDependencies }
            ELSE { [ files |-> files, text |-> EmptyMap, compose |-> EmptyMap ] } :
            files \in SUBSET TypeMarkers }

\* a Python project: requirements.txt and pyproject.toml each mention any of
\* the frameworks
PyTypeDirs ==
    UNION { { [ files |-> files, text |-> text, compose |-> EmptyMap ] :
              text \in [ files \cap { "requirements.txt", "pyproject.toml" }
                            -> SUBSET { "fastapi", "django", "flask" } ] } :
            files \in SUBSET { "pyproject.toml", "setup.py", "requirements.txt",
                               "package.json" } }

\* any set of the marker files and directories, none mentioning a framework
MarkerTypeDirs ==
    { [ files |-> files,
        text |-> [ f \in files \cap { "pyproject.toml", "package.json" } |-> {} ],
        compose |-> EmptyMap ] :
      files \in SUBSET { "Cargo.toml", "src-tauri", "pyproject.toml", "setup.py",
                         "package.json", "go.mod", "pom.xml", "build.gradle" } }

InitType ==
    /\ tree \in TypeDirs \cup PyTypeDirs \cup MarkerTypeDirs
    /\ disk = NoFile
    /\ dirs = AllDirs
    /\ now = 0
    /\ last = NoCmd
    /\ reg = << >>
    /\ pc = [ p \in Procs |-> Idle ]
    /\ mem = [ p \in Procs |-> << >> ]
    /\ op = [ p \in Procs |-> NoCmd ]
    /\ saved = << >>

\* Project::detect_type(&tree)
DetectType ==
    /\ last.cmd = "none"
    /\ last' = [ NoCmd EXCEPT !.cmd = "detect_type",
                              !.status = detect_type(tree.files, tree.text) ]
    /\ UNCHANGED << tree, disk, dirs, now, reg, pc, mem, op, saved >>

NextType == DetectType

SpecType == InitType /\ [][NextType]_vars

\* ------------------------------------------- deps on one project directory
\* A registered project whose directory holds any of the manifests, and any
\* of the package manager binaries installed
ManagerFiles ==
    { "Cargo.toml", "package.json", "yarn.lock", "requirements.txt", "go.mod" }
ManagerBins == { "cargo", "npm", "yarn", "pip", "go" }

InitManagers ==
    /\ \E files \in SUBSET ManagerFiles :
            tree = [ files |-> files, text |-> EmptyMap, compose |-> EmptyMap ]
    /\ reg = << ProjectNew(<< "a" >>, "/home/u/w", "unknown", 0) >>
    /\ disk = NoFile
    /\ dirs = AllDirs
    /\ now = 0
    /\ last = NoCmd
    /\ pc = [ p \in Procs |-> Idle ]
    /\ mem = [ p \in Procs |-> << >> ]
    /\ op = [ p \in Procs |-> NoCmd ]
    /\ saved = << >>

\* deps::update_deps(&reg[1]) with the binaries `bins` installed
UpdateDeps(bins) ==
    /\ LET run == update_run(reg[1], dirs, tree.files, bins)
       IN  last' = [ NoCmd EXCEPT !.cmd = "update_deps", !.done = run.ran,
                                 !.status = IF run.ok THEN "ok" ELSE "failed" ]
    /\ UNCHANGED << tree, disk, dirs, now, reg, pc, mem, op, saved >>

\* deps::check_outdated(&reg[1]) with the binaries `bins` installed
CheckOutdated(bins) ==
    /\ LET run == check_run(reg[1], dirs, tree.files, bins)
       IN  last' = [ NoCmd EXCEPT !.cmd = "check_outdated", !.done = run.ran,
                                 !.status = IF run.ok THEN "ok" ELSE "failed" ]
    /\ UNCHANGED << tree, disk, dirs, now, reg, pc, mem, op, saved >>

NextManagers ==
    \/ \E bins \in SUBSET ManagerBins : UpdateDeps(bins)
    \/ \E bins \in SUBSET ManagerBins : CheckOutdated(bins)

SpecManagers == InitManagers /\ [][NextManagers]_vars

\* ------------------------------------------------------- projectctl list
\* Registries of projects at /home/u/w, whose files tree gives, and at the
\* empty directory /home/u/w/a; docker reports any state of the services
ListDirs == { "/home/u/w", "/home/u/w/a" }
PsResults ==
    { Err, Ok(<< >>), Ok(<< "exited" >>), Ok(<< "running" >>),
      Ok(<< "exited", "running" >>) }

ListRegistries ==
    UNION { { [ i \in 1..n |-> ProjectNew(RecentNames[i], path[i], type[i], 0) ] :
              path \in [ 1..n -> { "~/w", "/home/u/w/a" } ],
              type \in [ 1..n -> { "rust", "react-vite" } ] } :
            n \in 0..MaxProjects }

InitList ==
    /\ disk \in { save_projects(projects) : projects \in ListRegistries }
    /\ \E files \in { { "Cargo.toml" }, { "Cargo.toml", "compose.yaml" } } :
            tree = [ files |-> files, text |-> EmptyMap,
                     compose |-> [ f \in files \ { "Cargo.toml" } |->
                                    << Key(0, "services"), Key(2, "api") >> ] ]
    /\ dirs = ListDirs
    /\ now = 0
    /\ last = NoCmd
    /\ reg = << >>
    /\ pc = [ p \in Procs |-> Idle ]
    /\ mem = [ p \in Procs |-> << >> ]
    /\ op = [ p \in Procs |-> NoCmd ]
    /\ saved = << >>

\* projectctl list [-t type] [--active], docker reporting ps
List(project_type, active, ps) ==
    /\ LET out == cmd_list(disk, project_type, active, dirs, tree, ps)
       IN  /\ disk' = out.disk
           /\ last' = Ran(IF active THEN "list_active" ELSE "list",
                          OptArg(project_type), out)
    /\ UNCHANGED << tree, dirs, now, reg, pc, mem, op, saved >>

NextList ==
    \/ \E project_type \in { None, Some("react"), Some("RUST") }, active \in BOOLEAN, ps \in PsResults :
            List(project_type, active, ps)
    \/ \E dir \in ListDirs : RemoveDir(dir)
    \/ \E dir \in ListDirs : MakeDir(dir)

SpecList == InitList /\ [][NextList]_vars

\* ------------------------------------------------ the resolver on its own
\* find_project is a function of the slice it is given: it is explored on
\* every sequence of at most MaxProjects projects, duplicates included.
FindRegistries ==
    UNION { [ 1..n -> { ProjectNew(name, "/home/u/w", "rust", 0) : name \in FindNames } ] :
            n \in 0..MaxProjects }

InitFind ==
    /\ reg \in FindRegistries
    /\ disk = NoFile
    /\ dirs = AllDirs
    /\ now = 0
    /\ last = NoCmd
    /\ pc = [ p \in Procs |-> Idle ]
    /\ mem = [ p \in Procs |-> << >> ]
    /\ op = [ p \in Procs |-> NoCmd ]
    /\ saved = << >>
    /\ tree = ProjectDir

Find(name) ==
    /\ last' = [ NoCmd EXCEPT !.cmd = "find", !.arg = name,
                              !.idx = find_project(reg, name),
                              !.status = IF find_project(reg, name) = 0
                                         THEN "not_found" ELSE "ok" ]
    /\ UNCHANGED << tree, disk, dirs, now, reg, pc, mem, op, saved >>

\* find_project_mut(&mut reg, name)
FindMut(name) ==
    /\ last' = [ NoCmd EXCEPT !.cmd = "find_mut", !.arg = name,
                              !.idx = find_project_mut(reg, name),
                              !.status = IF find_project_mut(reg, name) = 0
                                         THEN "not_found" ELSE "ok" ]
    /\ UNCHANGED << tree, disk, dirs, now, reg, pc, mem, op, saved >>

NextFind ==
    \/ \E name \in FindQueries : Find(name)
    \/ \E name \in FindQueries : FindMut(name)

SpecFind == InitFind /\ [][NextFind]_vars

\* ------------------------------------------- the registry store on its own
\* save_projects then load_projects, on registries whose projects have empty
\* and non-empty services, env and commands and a present or absent last_used.
StoreShapes ==
    { [ project_type |-> "unknown", services |-> << >>, env |-> EmptyMap,
        commands |-> EmptyMap ],
      [ project_type |-> "rust", services |-> << "api", "db" >>,
        env |-> [ RUST_LOG |-> "debug" ], commands |-> EmptyMap ],
      [ project_type |-> "go", services |-> << >>, env |-> EmptyMap,
        commands |-> [ dev |-> "go run .", test |-> "go test ./..." ] ] }

StoreProjects ==
    { [ name |-> n, path |-> "~/w", project_type |-> sh.project_type,
        services |-> sh.services, env |-> sh.env, commands |-> sh.commands,
        last_used |-> lu ] :
      n \in { <<"a">>, <<"a", "b">> }, sh \in StoreShapes, lu \in { None, Some(0) } }

StoreRegistries ==
    UNION { [ 1..n -> StoreProjects ] : n \in 0..MaxProjects }

InitStore ==
    /\ reg \in StoreRegistries
    /\ disk = NoFile
    /\ dirs = AllDirs
    /\ now = 0
    /\ last = NoCmd
    /\ pc = [ p \in Procs |-> Idle ]
    /\ mem = [ p \in Procs |-> << >> ]
    /\ op = [ p \in Procs |-> NoCmd ]
    /\ saved = << >>
    /\ tree = ProjectDir

\* config.save_projects(&reg)
SaveProjects ==
    /\ disk' = save_projects(reg)
    /\ pc' = [ pc EXCEPT ![1] = Idle ]
    /\ mem' = [ mem EXCEPT ![1] = << >> ]
    /\ UNCHANGED << tree, dirs, now, last, reg, op, saved >>

\* config.load_projects() into the copy of invocation 1
LoadProjects ==
    /\ disk.kind = "toml"
    /\ load_projects(disk).ok
    /\ mem' = [ mem EXCEPT ![1] = load_projects(disk).value ]
    /\ pc' = [ pc EXCEPT ![1] = [ Idle EXCEPT !.at = "loaded" ] ]
    /\ UNCHANGED << tree, disk, dirs, now, last, reg, op, saved >>

NextStore == SaveProjects \/ LoadProjects

SpecStore == InitStore /\ [][NextStore]_vars

\* --------------------------------------------- two concurrent invocations
\* The registry is first built by commands that run alone; then two
\* invocations run without synchronisation.  An invocation loads the file and
\* changes its copy in one step (nothing else is shared), and writes the file
\* in a later step; mem[p] is the document invocation p is about to write.
RaceStarted == \E p \in Procs : pc[p].at # "idle"

RaceAdd(name, path) ==
    /\ ~ RaceStarted
    /\ Add(name, path)

RaceOutcomeOn(d, cmd, arg) ==
    IF cmd = "add" THEN cmd_add(d, Some(arg), Some("~/w"), None, dirs, now)
    ELSE cmd_remove(d, arg)

RaceOutcome(cmd, arg) == RaceOutcomeOn(disk, cmd, arg)

\* load_projects and the change of the copy, up to the call of save_projects;
\* an invocation that bails has nothing to write and ends
RaceLoad(p, cmd, arg) ==
    /\ pc[p].at = "idle"
    /\ cmd = "add" => Len(disk.project) < MaxProjects
    /\ LET out == RaceOutcome(cmd, arg)
       IN  /\ op' = [ op EXCEPT ![p] = Ran(cmd, arg, out) ]
           /\ mem' = [ mem EXCEPT ![p] = out.disk ]
           /\ pc' = [ pc EXCEPT ![p] =
                        [ at |-> IF out.status = "ok" THEN "loaded" ELSE "failed",
                          seen |-> Len(saved), pos |-> 0 ] ]
    /\ reg' = load_projects(disk).value
    /\ UNCHANGED << tree, disk, dirs, now, last, saved >>

RaceSave_Merge(p) ==
    /\ pc[p].at = "loaded"
    /\ disk' = RaceOutcome(op[p].cmd, op[p].arg).disk
    /\ saved' = Append(saved, p)
    /\ pc' = [ pc EXCEPT ![p].at = "done", ![p].pos = Len(saved) + 1 ]
    /\ UNCHANGED << tree, dirs, now, last, reg, mem, op >>

\* save_projects: fs::write replaces the file by the invocation's copy
RaceSave(p) ==
    /\ pc[p].at = "loaded"
    /\ disk' = mem[p]
    /\ saved' = Append(saved, p)
    /\ pc' = [ pc EXCEPT ![p].at = "done", ![p].pos = Len(saved) + 1 ]
    /\ UNCHANGED << tree, dirs, now, last, reg, mem, op >>

NextRace ==
    \/ \E name \in OptNames, path \in OptPaths : RaceAdd(name, path)
    \/ \E p \in Procs, arg \in Names : RaceLoad(p, "add", arg)
    \/ \E p \in Procs, arg \in Queries : RaceLoad(p, "remove", arg)
    \/ \E p \in Procs : RaceSave(p)

SpecRace == Init /\ [][NextRace]_vars

\* ================================================================ claims
Registry == load_projects(disk).value

EqIgnoreCase(a, b) == to_lowercase(a) = to_lowercase(b)

ExactIn(projects, q) ==
    { i \in DOMAIN projects : EqIgnoreCase(projects[i].name, q) }
PrefixIn(projects, q) ==
    { i \in DOMAIN projects :
        Len(q) <= Len(projects[i].name)
        /\ \A k \in 1..Len(q) : Lower(projects[i].name[k]) = Lower(q[k]) }
SubstringIn(projects, q) ==
    { i \in DOMAIN projects :
        \E o \in 0..(Len(projects[i].name) - Len(q)) :
            \A k \in 1..Len(q) : Lower(projects[i].name[o + k]) = Lower(q[k]) }

DistinctIgnoringCase(projects) ==
    \A i, j \in DOMAIN projects :
        i # j => ~ EqIgnoreCase(projects[i].name, projects[j].name)

\* C1: find_project returns the first record whose name equals the query
\* ignoring case whenever there is one, whatever else starts with or contains
\* the query.
C1_ExactMatchWins ==
    (last.cmd = "find" /\ ExactIn(reg, last.arg) # {})
        => /\ last.idx \in ExactIn(reg, last.arg)
           /\ \A j \in ExactIn(reg, last.arg) : last.idx <= j

C1_Witness ==
    /\ last.cmd = "find"
    /\ ExactIn(reg, last.arg) # {}
    /\ DistinctIgnoringCase(reg)
    /\ \E j \in PrefixIn(reg, last.arg) \ ExactIn(reg, last.arg) : j < last.idx
    /\ last.idx \in ExactIn(reg, last.arg)

\* C2: with no name equal to the query and two or more names starting with
\* it, find_project returns None.
C2_AmbiguousPrefixNotFound ==
    (/\ last.cmd = "find"
     /\ ExactIn(reg, last.arg) = {}
     /\ Cardinality(PrefixIn(reg, last.arg)) >= 2)
        => last.idx = 0 /\ last.status = "not_found"

C2_Witness ==
    /\ last.cmd = "find"
    /\ ExactIn(reg, last.arg) = {}
    /\ Cardinality(PrefixIn(reg, last.arg)) >= 2
    /\ DistinctIgnoringCase(reg)
    /\ last.idx = 0

\* C3 (as claimed): a switch whose query equals no name and matches two or
\* more names as a prefix or substring fails with not-found and changes no
\* last_used.
AmbiguousQuery(projects, q) ==
    /\ ExactIn(projects, q) = {}
    /\ Cardinality(SubstringIn(projects, q)) >= 2

CommandStep(cmd) ==
    /\ last'.cmd = cmd
    /\ last' # last \/ disk' # disk

C3_SwitchNeverResolvesAmbiguity ==
    [][ (CommandStep("switch") /\ AmbiguousQuery(Registry, last'.arg))
            => /\ last'.status = "not_found"
               /\ Len(Registry') = Len(Registry)
               /\ \A i \in DOMAIN Registry :
                    Registry'[i].last_used = Registry[i].last_used ]_vars

\* C4 (as claimed): no two projects of the persisted registry have names
\* that are equal ignoring case.
C4_NamesUniqueIgnoringCase == DistinctIgnoringCase(Registry)

\* C5 (as claimed): a successful remove deletes exactly one entry, whose name
\* equals the argument ignoring case, and keeps the others in order.
WithoutAt(projects, i) ==
    [ k \in 1..(Len(projects) - 1) |->
        IF k < i THEN projects[k] ELSE projects[k + 1] ]

C5_RemoveDeletesExactlyOne ==
    [][ (CommandStep("remove") /\ last'.status = "ok")
            => \E i \in DOMAIN Registry :
                /\ EqIgnoreCase(Registry[i].name, last'.arg)
                /\ Registry' = WithoutAt(Registry, i) ]_vars

\* C6: remove with an argument that equals no registered name ignoring case
\* fails with not-found and leaves the registry file as it was.
C6_RemoveMissingLeavesRegistry ==
    [][ (CommandStep("remove") /\ ExactIn(Registry, last'.arg) = {})
            => last'.status = "not_found" /\ disk' = disk ]_vars

C6_Witness ==
    /\ last.cmd = "remove"
    /\ last.status = "not_found"
    /\ ExactIn(Registry, last.arg) = {}
    /\ PrefixIn(Registry, last.arg) # {}
    /\ Len(Registry) >= 2

\* C7: load_projects after save_projects(R) returns R, same projects in the
\* same order.
C7_SaveLoadRoundTrip ==
    pc[1].at = "loaded" => mem[1] = reg

C7_Witness ==
    /\ pc[1].at = "loaded"
    /\ mem[1] = reg
    /\ Len(reg) >= 2
    /\ reg[1] # reg[2]
    /\ \E i \in DOMAIN reg : reg[i].last_used = None /\ reg[i].services = << >>
    /\ \E i \in DOMAIN reg : reg[i].last_used # None /\ reg[i].env # EmptyMap
    /\ \E i \in DOMAIN reg : reg[i].commands # EmptyMap

\* C8: with no name equal to or starting with the query, find_project returns
\* the record whose name contains it when there is exactly one, and None when
\* there are two or more.
C8_SubstringTier ==
    (/\ last.cmd = "find"
     /\ ExactIn(reg, last.arg) = {}
     /\ PrefixIn(reg, last.arg) = {})
        => /\ Cardinality(SubstringIn(reg, last.arg)) = 1
                => SubstringIn(reg, last.arg) = { last.idx }
           /\ Cardinality(SubstringIn(reg, last.arg)) >= 2 => last.idx = 0

C8_Witness ==
    /\ last.cmd = "find"
    /\ ExactIn(reg, last.arg) = {}
    /\ PrefixIn(reg, last.arg) = {}
    /\ SubstringIn(reg, last.arg) = { last.idx }
    /\ Len(reg) >= 2

\* C9: the registry file holds the copy of the invocation that saved last;
\* when both invocations loaded before either saved, the file is what the
\* later writer's command alone makes of the registry they loaded, and a
\* project the earlier writer added (and the later one did not) is not in it.
NamesOf(d) == { d.project[i].name : i \in DOMAIN d.project }

C9_LastWriterWins ==
    /\ saved # << >> => disk = mem[saved[Len(saved)]]
    /\ (/\ Len(saved) = 2
        /\ \A p \in Procs : pc[p].at = "done" /\ pc[p].seen = 0)
        => LET e == saved[1]
               l == saved[2]
           IN  /\ disk = RaceOutcomeOn(save_projects(reg), op[l].cmd, op[l].arg).disk
               /\ (op[e].cmd = "add"
                   /\ ~ (op[l].cmd = "add" /\ op[l].arg = op[e].arg))
                    => op[e].arg \notin NamesOf(disk)
               /\ (op[e].cmd = "remove"
                   /\ ~ (op[l].cmd = "remove" /\ EqIgnoreCase(op[l].arg, op[e].arg)))
                    => \E n \in NamesOf(disk) : EqIgnoreCase(n, op[e].arg)

C9_Witness ==
    /\ Len(saved) = 2
    /\ \A p \in Procs : pc[p].at = "done" /\ pc[p].seen = 0
    /\ op[saved[1]].cmd = "add"
    /\ op[saved[2]].cmd = "add"
    /\ op[saved[1]].arg # op[saved[2]].arg
    /\ op[saved[1]].arg \in NamesOf(mem[saved[1]])
    /\ op[saved[1]].arg \notin NamesOf(disk)
    /\ Len(reg) >= 1

\* C10 (as claimed): deps update --all and deps check --all call the deps
\* function on every registered project, also after one of the calls failed.
C10_BulkDepsProcessEveryProject ==
    last.cmd \in { "update", "check" }
        => last.done = [ i \in 1..Len(Registry) |-> i ]

\* C11: after `new <name> --template <t>` has succeeded, the registry holds a
\* project whose path is the scaffolded directory.
NewTarget(c) ==
    IF c.path = None THEN JoinPath(CurrentDir, c.arg)
    ELSE JoinPath(expand_path(c.path[1]), c.arg)

C11_NewRegistersProject ==
    (last.cmd = "new" /\ last.status = "ok")
        => \E i \in DOMAIN Registry :
                expand_path(Registry[i].path) = NewTarget(last)

\* C12: last_used becomes present only through a successful switch: a project
\* whose last_used is present after a step either was in the registry with
\* the same record before the step, or is the project a successful switch of
\* that step selected; a project that was added and never switched to has
\* last_used absent.
SwitchedTo(i) ==
    /\ CommandStep("switch") \/ CommandStep("switch_recent")
    /\ last'.status = "ok"
    /\ last'.idx = i

C12_LastUsedOnlyBySwitch ==
    [][ \A i \in DOMAIN Registry' :
            Registry'[i].last_used # None
                => \/ \E j \in DOMAIN Registry : Registry[j] = Registry'[i]
                   \/ SwitchedTo(i) ]_vars

\* C19: the path `add --path p` records in the registry is the string p as the
\* user typed it, a leading ~ kept.
C19_AddStoresPathAsGiven ==
    (last.cmd = "add" /\ last.status = "ok" /\ last.path # None)
        => Registry[last.idx].path = last.path[1]

\* C13: most-recent-first order puts a project before another when its
\* last_used is later, or present where the other's is absent, or equal (or
\* both absent) and it comes first in the registry; `recent` prints the first
\* `limit` projects of that order and `switch --recent` selects its first.
Precedes(projects, i, j) ==
    LET a == projects[i].last_used
        b == projects[j].last_used
    IN  \/ a # None /\ b = None
        \/ a # None /\ b # None /\ a[1] > b[1]
        \/ a = b /\ i < j

MostRecentFirst(projects, order, limit) ==
    LET shown == { order[k] : k \in DOMAIN order }
    IN  /\ shown \subseteq DOMAIN projects
        /\ Len(order) = IF limit < Len(projects) THEN limit ELSE Len(projects)
        /\ \A k, m \in DOMAIN order : k < m => Precedes(projects, order[k], order[m])
        /\ \A i \in shown, j \in DOMAIN projects \ shown : Precedes(projects, i, j)

C13_MostRecentFirst ==
    [][ /\ (CommandStep("recent") /\ last'.status = "ok")
            => \E limit \in RecentLimits :
                    MostRecentFirst(Registry, last'.done, limit)
        /\ (CommandStep("switch_recent") /\ Registry # << >>)
            => MostRecentFirst(Registry, << last'.idx >>, 1) ]_vars

C13_Witness ==
    /\ last.cmd = "recent"
    /\ Len(last.done) = 3
    /\ Registry[1].last_used = None
    /\ Registry[2].last_used # None
    /\ Registry[2].last_used = Registry[3].last_used

\* C14: for an elapsed time d >= 0 the label of last_used_ago is "just now"
\* below one minute, the whole minutes below 60 minutes, the whole hours
\* below 24 hours, the whole days below 7 days, the whole weeks below 4
\* weeks, and otherwise max(1, floor(days / 30)) months, singular for one
\* and plural otherwise; an absent last_used gives "never".
Elapsed == now - reg[1].last_used[1]

Units(n, one, many) == IF n = 1 THEN << n, one >> ELSE << n, many >>

ClaimedLabel(d) ==
    IF d < 60 THEN << 0, "just now" >>
    ELSE IF d < 60 * 60 THEN << d \div 60, "min" >>
    ELSE IF d < 24 * 3600 THEN Units(d \div 3600, "hour", "hours")
    ELSE IF d < 7 * 86400 THEN Units(d \div 86400, "day", "days")
    ELSE IF d < 4 * 7 * 86400 THEN Units(d \div (7 * 86400), "week", "weeks")
    ELSE LET months == (d \div 86400) \div 30
         IN  Units(IF months > 1 THEN months ELSE 1, "month", "months")

C14_LastUsedAgoLabels ==
    last.cmd = "last_used_ago"
        => IF reg[1].last_used = None THEN last.status = "never"
           ELSE Elapsed >= 0 => << last.idx, last.status >> = ClaimedLabel(Elapsed)

C14_Witness ==
    /\ last.cmd = "last_used_ago"
    /\ reg[1].last_used # None
    /\ Elapsed = 28 * 86400
    /\ last.idx = 1
    /\ last.status = "month"

\* C15: find_project_mut returns a record exactly when find_project does, and
\* it is the record at the same position of the registry.
C15_FindMutAgreesWithFind ==
    last.cmd = "find_mut"
        => /\ (last.status = "ok") <=> (find_project(reg, last.arg) # 0)
           /\ last.idx = find_project(reg, last.arg)

C15_Witness ==
    /\ last.cmd = "find_mut"
    /\ last.idx = 2
    /\ ExactIn(reg, last.arg) = {}
    /\ Cardinality(PrefixIn(reg, last.arg)) = 1
    /\ Cardinality(SubstringIn(reg, last.arg)) >= 2

\* C16: on a compose document of the block shape, detect_services returns
\* exactly the keys at the service level of the services block (the
\* shallowest indent between the services key and the next top-level line),
\* in document order, and no nested key or key of another section.
ComposeDoc == tree.compose[CHOOSE f \in DOMAIN tree.compose : TRUE]

Content(doc) == { i \in DOMAIN doc : doc[i].kind \in { "key", "other" } }

ServicesBlock(doc) ==
    LET start == SetMin({ i \in Content(doc) :
                            doc[i].kind = "key" /\ doc[i].name = "services" })
        after == { i \in Content(doc) : i > start /\ doc[i].indent = 0 }
        end == IF after = {} THEN Len(doc) + 1 ELSE SetMin(after)
    IN  { i \in Content(doc) : start < i /\ i < end }

ServiceKeys(doc) ==
    LET block == ServicesBlock(doc)
        level == SetMin({ doc[i].indent : i \in block })
        keys == { i \in block : doc[i].indent = level /\ doc[i].kind = "key" }
    IN  [ k \in 1..Cardinality(keys) |->
            doc[CHOOSE i \in keys : Cardinality({ j \in keys : j < i }) = k - 1].name ]

C16_ServicesOfComposeDocument ==
    last.cmd = "detect_services" => last.done = ServiceKeys(ComposeDoc)

C16_Witness ==
    /\ last.cmd = "detect_services"
    /\ last.done = << "api", "db" >>
    /\ \E i \in DOMAIN ComposeDoc :
            ComposeDoc[i].kind = "key" /\ ComposeDoc[i].name = "dbdata"
    /\ \E i \in DOMAIN ComposeDoc :
            ComposeDoc[i].kind = "key" /\ ComposeDoc[i].name = "environment"

\* C25: service extraction collects only keys of the services section: every
\* collected name is a key between the services key and the next top-level
\* line, so an empty services section followed by another section yields no
\* service.
C25_OnlyKeysOfServicesSection ==
    last.cmd = "detect_services"
        => \A k \in DOMAIN last.done :
              \E i \in ServicesBlock(ComposeDoc) :
                  /\ ComposeDoc[i].kind = "key"
                  /\ ComposeDoc[i].name = last.done[k]

\* C17: when package.json is the first marker that matches, the type is that
\* of the first of next, nuxt, react, vue, svelte, express the manifest
\* lists (react-vite for react when vite is listed too), and node when it
\* lists none of them; a manifest listing both next and react gives nextjs.
Lists(dep) ==
    /\ "package.json" \in DOMAIN tree.text
    /\ dep \in tree.text["package.json"]

JsPrecedence ==
    << [ dep |-> "\"next\"", type |-> "nextjs" ],
       [ dep |-> "\"nuxt\"", type |-> "nuxt" ],
       [ dep |-> "\"react\"", type |-> "react" ],
       [ dep |-> "\"vue\"", type |-> "vue" ],
       [ dep |-> "\"svelte\"", type |-> "svelte" ],
       [ dep |-> "\"express\"", type |-> "express" ] >>

PackageJsonFirst ==
    /\ "package.json" \in tree.files
    /\ tree.files \cap { "Cargo.toml", "pyproject.toml", "setup.py" } = {}

C17_JsFrameworkPrecedence ==
    (last.cmd = "detect_type" /\ PackageJsonFirst)
        => LET listed == { k \in DOMAIN JsPrecedence : Lists(JsPrecedence[k].dep) }
               first == JsPrecedence[SetMin(listed)].type
           IN  last.status =
                 IF listed = {} THEN "node"
                 ELSE IF first = "react" /\ Lists("\"vite\"") THEN "react-vite"
                 ELSE first

C17_Witness ==
    /\ last.cmd = "detect_type"
    /\ PackageJsonFirst
    /\ Lists("\"next\"") /\ Lists("\"react\"") /\ Lists("\"vite\"")
    /\ "go.mod" \in tree.files
    /\ last.status = "nextjs"

\* C18: deps update on a project whose directory exists does not fail because
\* a package manager binary is absent: it returns Ok after the update of
\* every detected manager was started, as deps check does.
C18_UpdateToleratesMissingBinary ==
    (last.cmd \in { "update_deps", "check_outdated" }
        /\ path_exists(reg[1].path, dirs))
        => /\ last.status = "ok"
           /\ last.done = detect_managers(tree.files)

\* C20: list --active shows only projects with at least one running service:
\* every row of its table has the status Running, and a project with a
\* compose file but no running service (status Idle) is not listed.
C20_ActiveListsOnlyRunning ==
    last.cmd = "list_active"
        => \A k \in DOMAIN last.done : last.done[k].status = "Running"

\* C21: switch <query> selects a project whose name equals the query ignoring
\* case whenever one is registered, also when a project registered earlier
\* has the query as a prefix or substring of its name.
C21_SwitchPrefersExactMatch ==
    [][ (CommandStep("switch") /\ ExactIn(Registry, last'.arg) # {}
            /\ last'.status \in { "ok", "dir_missing" })
            => last'.idx \in ExactIn(Registry, last'.arg) ]_vars

\* C22: when no name equals the query ignoring case and exactly one name
\* starts with it, find_project returns that record, also when other names
\* contain the query elsewhere than at their start.
C22_UniquePrefixBeforeSubstring ==
    (last.cmd = "find" /\ ExactIn(reg, last.arg) = {}
        /\ Cardinality(PrefixIn(reg, last.arg)) = 1)
        => /\ last.status = "ok"
           /\ last.idx \in PrefixIn(reg, last.arg)

C22_Witness ==
    /\ last.cmd = "find"
    /\ last.status = "ok"
    /\ ExactIn(reg, last.arg) = {}
    /\ PrefixIn(reg, last.arg) = { last.idx }
    /\ \E i \in SubstringIn(reg, last.arg) : i < last.idx

\* C23: a successful switch changes only the last_used of the selected
\* project: the registry keeps its length and order, and every project is
\* the record it was, but for the last_used of the selected one.
SwitchStep == CommandStep("switch") \/ CommandStep("switch_recent")

C23_SwitchChangesOnlyLastUsed ==
    [][ (SwitchStep /\ last'.status = "ok")
            => /\ Len(Registry') = Len(Registry)
               /\ \A i \in DOMAIN Registry :
                    IF i = last'.idx
                    THEN [ Registry'[i] EXCEPT !.last_used = None ]
                            = [ Registry[i] EXCEPT !.last_used = None ]
                    ELSE Registry'[i] = Registry[i] ]_vars

C23_Witness ==
    /\ last.cmd = "switch"
    /\ last.status = "ok"
    /\ last.idx = 2
    /\ Len(Registry) = 3
    /\ Registry[2].last_used = Some(1)
    /\ Registry[1].last_used = Some(0)

\* C24: switch to a project whose directory does not exist fails and leaves
\* the registry file as it was: the last_used of the project is not updated.
C24_SwitchMissingDirectory ==
    [][ (SwitchStep /\ last'.idx # 0
            /\ ~ path_exists(Registry[last'.idx].path, dirs))
            => /\ last'.status = "dir_missing"
               /\ disk' = disk ]_vars

C24_Witness ==
    /\ last.cmd = "switch"
    /\ last.status = "dir_missing"
    /\ now = 1
    /\ Registry[last.idx].last_used = Some(0)

\* C26: for a Python project (pyproject.toml or setup.py present, no
\* Cargo.toml) the type is the first of fastapi, django, flask mentioned in
\* requirements.txt or in pyproject.toml, and python when none is mentioned.
PythonFirst ==
    /\ tree.files \cap { "pyproject.toml", "setup.py" } # {}
    /\ "Cargo.toml" \notin tree.files

Mentioned(w) ==
    \E f \in { "requirements.txt", "pyproject.toml" } : Has(tree.text, f, w)

PyPrecedence == << "fastapi", "django", "flask" >>

C26_PythonFrameworkPriority ==
    (last.cmd = "detect_type" /\ PythonFirst)
        => LET mentioned == { k \in DOMAIN PyPrecedence : Mentioned(PyPrecedence[k]) }
           IN  last.status =
                 IF mentioned = {} THEN "python" ELSE PyPrecedence[SetMin(mentioned)]

\* C27: the marker rules apply in the order Cargo.toml, pyproject.toml or
\* setup.py, package.json, go.mod, pom.xml or build.gradle, and the type is a
\* tag of the first rule that matches (unknown when none does); a directory
\* with only go.mod is of type go.
PythonTags == { "fastapi", "django", "flask", "python" }
JsTags ==
    { "nextjs", "nuxt", "react-vite", "react", "vue", "svelte", "express", "node" }

MarkerRules ==
    << [ markers |-> { "Cargo.toml" },
         tags |-> IF "src-tauri" \in tree.files THEN { "tauri" } ELSE { "rust" } ],
       [ markers |-> { "pyproject.toml", "setup.py" }, tags |-> PythonTags ],
       [ markers |-> { "package.json" }, tags |-> JsTags ],
       [ markers |-> { "go.mod" }, tags |-> { "go" } ],
       [ markers |-> { "pom.xml", "build.gradle" }, tags |-> { "java" } ] >>

C27_FirstMatchingMarkerRuleWins ==
    last.cmd = "detect_type"
        => LET matching == { k \in DOMAIN MarkerRules :
                               MarkerRules[k].markers \cap tree.files # {} }
           IN  /\ last.status \in IF matching = {} THEN { "unknown" }
                                   ELSE MarkerRules[SetMin(matching)].tags
               /\ tree.files = { "go.mod" } => last.status = "go"

C27_Witness ==
    /\ last.cmd = "detect_type"
    /\ { "go.mod", "pom.xml", "build.gradle" } \subseteq tree.files
    /\ tree.files \cap { "Cargo.toml", "pyproject.toml", "setup.py", "package.json" } = {}
    /\ last.status = "go"

\* C28 as claimed: right after a successful switch to P, with the clock not
\* earlier than any stored timestamp, P is first in the most-recent-first
\* order: switch --recent would select P and recent lists P first.
NotLaterThanNow(p) == p.last_used = None \/ p.last_used[1] <= now
EarlierThanNow(p) == p.last_used = None \/ p.last_used[1] < now

SwitchedProjectIsMostRecent ==
    /\ switch_select(Registry', None, TRUE) = last'.idx
    /\ display_recent(Registry', 1) = << last'.idx >>

C28_SwitchedProjectFirst ==
    [][ (SwitchStep /\ last'.status = "ok"
            /\ \A i \in DOMAIN Registry : NotLaterThanNow(Registry[i]))
            => SwitchedProjectIsMostRecent ]_vars

\* C28 amended: the same, when the clock is later than the stored timestamp
\* of every other project.
C28_SwitchedProjectFirstWhenLater ==
    [][ (SwitchStep /\ last'.status = "ok"
            /\ \A i \in DOMAIN Registry \ { last'.idx } :
                    EarlierThanNow(Registry[i]))
            => SwitchedProjectIsMostRecent ]_vars

C28_Witness ==
    /\ last.cmd = "switch"
    /\ last.status = "ok"
    /\ last.idx = 2
    /\ Len(Registry) >= 2
    /\ now = 1
    /\ Registry[2].last_used = Some(now)
    /\ \A i \in DOMAIN Registry \ { 2 } : EarlierThanNow(Registry[i])

\* C29: when the registry file exists and is malformed, add, remove and
\* switch fail and write nothing: the registry file is the same after the
\* command as before it.
MalformedFile ==
    \/ disk.kind = "malformed"
    \/ /\ disk.kind = "toml"
       /\ \E i \in DOMAIN disk.project :
              ~ ({ "name", "path" } \subseteq DOMAIN disk.project[i])

C29_MalformedRegistryNotWritten ==
    [][ ((CommandStep("add") \/ CommandStep("remove") \/ SwitchStep)
            /\ MalformedFile)
            => /\ disk' = disk
               /\ last'.status # "ok" ]_vars

C29_Witness ==
    /\ last.cmd = "add"
    /\ last.status = "parse_error"
    /\ disk = Malformed

\* C30: new with a template that is neither custom nor built-in fails and
\* leaves the filesystem as it was: no directory is created, the target
\* directory does not exist afterwards.
C30_UnknownTemplateLeavesNoDirectory ==
    [][ (CommandStep("new") /\ last'.status = "unknown_template")
            => /\ dirs' = dirs
               /\ NewTarget(last') \notin dirs' ]_vars

====
